---- MODULE Spec2Model ----
(***************************************************************************)
(* Model of BrowserFileSystemProvider (BrowserFileSystemProvider.ts): an   *)
(* in-memory, path-keyed file store.  The store is the module-level object *)
(* mockFileSystem; every provider method reads or mutates it.              *)
(*                                                                         *)
(* Strings (paths, file contents) are sequences of one-character strings,  *)
(* so that concatenation, length and prefixes are computed, not assumed.   *)
(* A JavaScript object enumerates its keys that are array indices ("0",    *)
(* "7", "10") first, in ascending numeric order, and then its other string *)
(* keys in insertion order, so the store is a sequence of <<key, content>> *)
(* entries with distinct keys, kept in that order.                         *)
(*                                                                         *)
(* Input domain: path arguments are drawn from Paths and contents from     *)
(* Contents.  Content arguments are JavaScript strings (for a string,      *)
(* content.toString("utf-8") is String.prototype.toString, which returns   *)
(* the string itself).  Paths never name a property inherited from         *)
(* Object.prototype ("constructor", "toString", ...), so mockFileSystem[p] *)
(* is an own entry or undefined.                                           *)
(***************************************************************************)
EXTENDS Integers, Sequences, FiniteSets, TLC

VARIABLES
    mockFileSystem,   \* the store: sequence of [key, content] in insertion order
    before,           \* the store as it was when the last call started
    op,               \* the last call: method name and arguments
    result,           \* how the last call's promise settled
    calls,            \* number of calls made so far
    igCalls,          \* arguments the ignore predicate got during the last call, in order
    providers,        \* number of BrowserFileSystemProvider instances constructed
    self,             \* the instance the last call was made on
    generators,       \* the generator objects getDirectoryTree has returned, oldest first
    frames,           \* per concurrent caller: the call it has made and how far its body has run
    plugin            \* the plugin: configuration installed with, service registry, registrations

vars == <<mockFileSystem, before, op, result, calls, igCalls, providers, self, generators,
          frames, plugin>>

\* Bound on the number of provider calls in one behaviour.
MaxCalls == 2

(***************************************************************************)
(* Seed entries of mockFileSystem.                                         *)
(***************************************************************************)
README_md_path ==
    <<
       "/", "R", "E", "A", "D", "M", "E", ".", "m", "d" >>

README_md_content ==
    <<
       "#", " ", "M", "o", "c", "k", " ", "F", "i", "l", "e", " ", "S", "y", "s", "t",
       "e", "m", "\n", "\n", "T", "h", "i", "s", " ", "i", "s", " ", "a", " ", "s", "a",
       "m", "p", "l", "e", " ", "R", "E", "A", "D", "M", "E", " ", "f", "i", "l", "e",
       "." >>

index_js_path ==
    <<
       "/", "s", "r", "c", "/", "i", "n", "d", "e", "x", ".", "j", "s" >>

index_js_content ==
    <<
       "c", "o", "n", "s", "o", "l", "e", ".", "l", "o", "g", "(", "\"", "H", "e", "l",
       "l", "o", " ", "f", "r", "o", "m", " ", "m", "o", "c", "k", " ", "i", "n", "d",
       "e", "x", ".", "j", "s", "\"", ")", ";" >>

Button_jsx_path ==
    <<
       "/", "s", "r", "c", "/", "c", "o", "m", "p", "o", "n", "e", "n", "t", "s", "/",
       "B", "u", "t", "t", "o", "n", ".", "j", "s", "x" >>

Button_jsx_content ==
    <<
       "c", "o", "n", "s", "t", " ", "B", "u", "t", "t", "o", "n", " ", "=", " ", "(",
       ")", " ", "=", ">", " ", "<", "b", "u", "t", "t", "o", "n", ">", "C", "l", "i",
       "c", "k", " ", "M", "e", "<", "/", "b", "u", "t", "t", "o", "n", ">", ";", "\n",
       "e", "x", "p", "o", "r", "t", " ", "d", "e", "f", "a", "u", "l", "t", " ", "B",
       "u", "t", "t", "o", "n", ";" >>

package_json_path ==
    <<
       "/", "p", "a", "c", "k", "a", "g", "e", ".", "j", "s", "o", "n" >>

package_json_content ==
    <<
       "{", " ", "\"", "n", "a", "m", "e", "\"", ":", " ", "\"", "m", "o", "c", "k", "-",
       "p", "r", "o", "j", "e", "c", "t", "\"", ",", " ", "\"", "v", "e", "r", "s", "i",
       "o", "n", "\"", ":", " ", "\"", "1", ".", "0", ".", "0", "\"", " ", "}" >>

SeedFileSystem ==
    << [key |-> README_md_path,    content |-> README_md_content],
       [key |-> index_js_path,     content |-> index_js_content],
       [key |-> Button_jsx_path,   content |-> Button_jsx_content],
       [key |-> package_json_path, content |-> package_json_content] >>

(***************************************************************************)
(* Inputs.                                                                 *)
(***************************************************************************)
\* Path arguments: the seed keys, a fresh absolute path and a fresh path
\* without the leading slash.
Paths ==
    { README_md_path, index_js_path, Button_jsx_path, package_json_path,
      <<"/", "a">>, <<"a">> }

\* Content arguments: the empty string and two distinct one-character strings.
Contents ==
    { <<>>, <<"x">>, <<"y">> }

(***************************************************************************)
(* The store as a JavaScript object: lookup, assignment, delete.           *)
(***************************************************************************)
\* Object.keys(mockFileSystem)
Keys(fs) ==
    [i \in 1..Len(fs) |-> fs[i].key]

\* mockFileSystem[p] is truthy: p is an own key (entries are objects).
Has(fs, p) ==
    \E i \in 1..Len(fs) : fs[i].key = p

IndexOf(fs, p) ==
    CHOOSE i \in 1..Len(fs) : fs[i].key = p

\* mockFileSystem[p].content, for an own key p
ContentOf(fs, p) ==
    fs[IndexOf(fs, p)].content

Digits ==
    <<"0", "1", "2", "3", "4", "5", "6", "7", "8", "9">>

\* p is the canonical decimal form of an array index (keys of the model have
\* fewer than ten characters, so the upper limit 2^32 - 2 is not reached)
IsArrayIndex(p) ==
    /\ p # <<>>
    /\ \A i \in 1..Len(p) : \E d \in 1..Len(Digits) : Digits[d] = p[i]
    /\ Len(p) > 1 => Head(p) # "0"

\* the number an array index key stands for
RECURSIVE NumberOf(_)
NumberOf(p) ==
    IF p = <<>>
    THEN 0
    ELSE NumberOf(SubSeq(p, 1, Len(p) - 1)) * Len(Digits)
             + (CHOOSE d \in 1..Len(Digits) : Digits[d] = p[Len(p)]) - 1

\* entry e is enumerated before a new key p: array indices in ascending
\* order come first, every other key goes last
EnumeratedBefore(e, p) ==
    IsArrayIndex(p) => (IsArrayIndex(e.key) /\ NumberOf(e.key) < NumberOf(p))

\* mockFileSystem[p] = { content: c }: an existing key keeps its position,
\* a new key is added last, unless it is an array index.
Assign(fs, p, c) ==
    IF Has(fs, p)
    THEN [fs EXCEPT ![IndexOf(fs, p)] = [key |-> p, content |-> c]]
    ELSE SelectSeq(fs, LAMBDA e : EnumeratedBefore(e, p))
             \o <<[key |-> p, content |-> c]>>
             \o SelectSeq(fs, LAMBDA e : ~EnumeratedBefore(e, p))

\* delete mockFileSystem[p]
Delete(fs, p) ==
    SelectSeq(fs, LAMBDA e : e.key # p)

\* a || "" on a string a: the empty string is falsy
OrEmpty(a) ==
    IF a = <<>> THEN <<>> ELSE a

(***************************************************************************)
(* JavaScript string methods on character sequences.                       *)
(***************************************************************************)
\* s.startsWith(prefix)
StartsWith(s, prefix) ==
    /\ Len(prefix) <= Len(s)
    /\ SubSeq(s, 1, Len(prefix)) = prefix

\* s.substring(start), start >= 0: the characters from 0-based index start on
Substring(s, start) ==
    IF start >= Len(s) THEN <<>> ELSE SubSeq(s, start + 1, Len(s))

\* s.includes(sub): sub occurs in s as a literal, case-sensitive substring
Includes(s, sub) ==
    \E i \in 0..(Len(s) - Len(sub)) : SubSeq(s, i + 1, i + Len(sub)) = sub

\* number of "/" characters at the start of s
RECURSIVE LeadingSlashes(_)
LeadingSlashes(s) ==
    IF s # <<>> /\ Head(s) = "/" THEN 1 + LeadingSlashes(Tail(s)) ELSE 0

\* number of "/" characters at the end of s
RECURSIVE TrailingSlashes(_)
TrailingSlashes(s) ==
    IF s # <<>> /\ s[Len(s)] = "/"
    THEN 1 + TrailingSlashes(SubSeq(s, 1, Len(s) - 1))
    ELSE 0

\* s.replace(/^\/+|\/+$/g, ""): the run of slashes at the start is removed,
\* then the run of slashes at the end of what is left
StripSlashes(s) ==
    LET t == Substring(s, LeadingSlashes(s))
    IN  SubSeq(t, 1, Len(t) - TrailingSlashes(t))

\* content.split("\n"): the pieces between newlines; always at least one
RECURSIVE SplitLines(_)
SplitLines(s) ==
    IF \E i \in 1..Len(s) : s[i] = "\n"
    THEN LET i == CHOOSE k \in 1..Len(s) :
                      s[k] = "\n" /\ \A j \in 1..(k - 1) : s[j] # "\n"
         IN  <<SubSeq(s, 1, i - 1)>> \o SplitLines(SubSeq(s, i + 1, Len(s)))
    ELSE <<s>>

\* lines.join("\n")
RECURSIVE JoinLines(_)
JoinLines(lines) ==
    IF lines = <<>> THEN <<>>
    ELSE IF Len(lines) = 1 THEN lines[1]
    ELSE lines[1] \o <<"\n">> \o JoinLines(Tail(lines))

\* lines.slice(start, end), 0 <= start: elements start .. end-1 (0-based)
Slice(lines, start, end) ==
    SubSeq(lines, start + 1, IF end > Len(lines) THEN Len(lines) ELSE end)

Max(a, b) ==
    IF a >= b THEN a ELSE b

Min(a, b) ==
    IF a <= b THEN a ELSE b

(***************************************************************************)
(* Caller-supplied ignore predicates (ig, ignoreFilter): either absent or  *)
(* the function  path => path.includes(sub)  for some string sub.          *)
(***************************************************************************)
NoFilter ==
    [kind |-> "none", sub |-> <<>>]

IncludesFilter(sub) ==
    [kind |-> "includes", sub |-> sub]

\* f is given (truthy)
Given(f) ==
    f.kind # "none"

\* f(path), for a given f
Apply(f, path) ==
    Includes(path, f.sub)

(***************************************************************************)
(* Settled promises.                                                       *)
(***************************************************************************)
Resolved(v) ==
    [kind |-> "resolved", value |-> v]

\* rejection with an error whose message is  prefix + path + suffix
Rejected(name, prefix, path, suffix) ==
    [kind |-> "rejected", name |-> name, prefix |-> prefix, path |-> path, suffix |-> suffix]

Call(name, path, content, destination, overwrite) ==
    [name |-> name, path |-> path, content |-> content,
     destination |-> destination, overwrite |-> overwrite]

NoCall ==
    Call("none", <<>>, <<>>, <<>>, FALSE)

Outcome(fs, r) ==
    [store |-> fs, result |-> r]

(***************************************************************************)
(* The provider's methods, each as the outcome of one call on store fs:    *)
(* the store it leaves and the way its promise settles.                    *)
(***************************************************************************)
readFileOutcome(fs, filePath) ==
    IF Has(fs, filePath)
    THEN Outcome(fs, Resolved(OrEmpty(ContentOf(fs, filePath))))
    ELSE Outcome(fs, Rejected("Error", "File not found: ", filePath, ""))

\* Mutation of writeFileOutcome: a path without a leading "/" is made absolute.
writeFileOutcome_MakesAbsolute(fs, filePath, content) ==
    LET key == IF filePath # <<>> /\ Head(filePath) = "/"
               THEN filePath
               ELSE <<"/">> \o filePath
    IN  Outcome(Assign(fs, key, content), Resolved(TRUE))

\* Mutation of writeFileOutcome: an existing entry is not replaced.
writeFileOutcome_KeepsExisting(fs, filePath, content) ==
    IF Has(fs, filePath)
    THEN Outcome(fs, Resolved(TRUE))
    ELSE Outcome(Assign(fs, filePath, content), Resolved(TRUE))

writeFileOutcome(fs, filePath, content) ==
    Outcome(Assign(fs, filePath, content), Resolved(TRUE))

\* Mutation of appendFileOutcome: the new content is put in front.
appendFileOutcome_Prepends(fs, filePath, content) ==
    IF Has(fs, filePath)
    THEN Outcome(Assign(fs, filePath, content \o ContentOf(fs, filePath)),
                 Resolved(TRUE))
    ELSE Outcome(fs, Rejected("TypeError",
                              "Cannot read properties of undefined (reading 'content')",
                              <<>>, ""))

\* mockFileSystem[filePath].content is read before the assignment; with no
\* entry at filePath the read of .content on undefined throws a TypeError.
appendFileOutcome(fs, filePath, content) ==
    IF Has(fs, filePath)
    THEN Outcome(Assign(fs, filePath, ContentOf(fs, filePath) \o content),
                 Resolved(TRUE))
    ELSE Outcome(fs, Rejected("TypeError",
                              "Cannot read properties of undefined (reading 'content')",
                              <<>>, ""))

deleteFileOutcome(fs, filePath) ==
    Outcome(fs, Rejected("Error", "deleteFile not implemented in mock.", <<>>, ""))

\* Mutation of existsOutcome: the truthiness of the content is tested, not
\* that of the entry.
existsOutcome_ContentTruthy(fs, filePath) ==
    Outcome(fs, Resolved(Has(fs, filePath) /\ ContentOf(fs, filePath) # <<>>))

existsOutcome(fs, filePath) ==
    Outcome(fs, Resolved(Has(fs, filePath)))

\* Mutation of copyOutcome: the source entry is removed after the copy.
copyOutcome_Moves(fs, source, destination, overwrite) ==
    IF ~Has(fs, source)
    THEN Outcome(fs, Rejected("Error", "Source file not found: ", source, ""))
    ELSE IF Has(fs, destination) /\ ~overwrite
    THEN Outcome(fs, Rejected("Error", "Destination file already exists: ", destination,
                              ". Use overwrite option to replace."))
    ELSE Outcome(SelectSeq(Assign(fs, destination, ContentOf(fs, source)),
                           LAMBDA e : e.key # source \/ source = destination),
                 Resolved(TRUE))

\* Mutation of copyOutcome: the overwrite option is not consulted.
copyOutcome_IgnoresOverwrite(fs, source, destination, overwrite) ==
    IF ~Has(fs, source)
    THEN Outcome(fs, Rejected("Error", "Source file not found: ", source, ""))
    ELSE Outcome(Assign(fs, destination, ContentOf(fs, source)), Resolved(TRUE))

\* Mutation of copyOutcome: the destination is checked before the source.
copyOutcome_ChecksDestinationFirst(fs, source, destination, overwrite) ==
    IF Has(fs, destination) /\ ~overwrite
    THEN Outcome(fs, Rejected("Error", "Destination file already exists: ", destination,
                              ". Use overwrite option to replace."))
    ELSE IF ~Has(fs, source)
    THEN Outcome(fs, Rejected("Error", "Source file not found: ", source, ""))
    ELSE Outcome(Assign(fs, destination, ContentOf(fs, source)), Resolved(TRUE))

copyOutcome(fs, source, destination, overwrite) ==
    IF ~Has(fs, source)
    THEN Outcome(fs, Rejected("Error", "Source file not found: ", source, ""))
    ELSE IF Has(fs, destination) /\ ~overwrite
    THEN Outcome(fs, Rejected("Error", "Destination file already exists: ", destination,
                              ". Use overwrite option to replace."))
    ELSE Outcome(Assign(fs, destination, ContentOf(fs, source)), Resolved(TRUE))

\* Mutation of renameOutcome: the old entry is not removed.
renameOutcome_KeepsOldPath(fs, oldPath, newPath) ==
    IF ~Has(fs, oldPath)
    THEN Outcome(fs, Rejected("Error", "Source file not found: ", oldPath, ""))
    ELSE IF Has(fs, newPath)
    THEN Outcome(fs, Rejected("Error", "Destination file already exists: ", newPath, ""))
    ELSE Outcome(Assign(fs, newPath, ContentOf(fs, oldPath)), Resolved(TRUE))

\* Mutation of renameOutcome: the old entry is removed before the destination
\* is checked.
renameOutcome_DeletesBeforeCheck(fs, oldPath, newPath) ==
    IF ~Has(fs, oldPath)
    THEN Outcome(fs, Rejected("Error", "Source file not found: ", oldPath, ""))
    ELSE IF Has(fs, newPath)
    THEN Outcome(Delete(fs, oldPath),
                 Rejected("Error", "Destination file already exists: ", newPath, ""))
    ELSE Outcome(Delete(Assign(fs, newPath, ContentOf(fs, oldPath)), oldPath),
                 Resolved(TRUE))

\* Mutation of renameOutcome: an existing destination is replaced.
renameOutcome_Overwrites(fs, oldPath, newPath) ==
    IF ~Has(fs, oldPath)
    THEN Outcome(fs, Rejected("Error", "Source file not found: ", oldPath, ""))
    ELSE Outcome(Delete(Assign(fs, newPath, ContentOf(fs, oldPath)), oldPath),
                 Resolved(TRUE))

renameOutcome(fs, oldPath, newPath) ==
    IF ~Has(fs, oldPath)
    THEN Outcome(fs, Rejected("Error", "Source file not found: ", oldPath, ""))
    ELSE IF Has(fs, newPath)
    THEN Outcome(fs, Rejected("Error", "Destination file already exists: ", newPath, ""))
    ELSE Outcome(Delete(Assign(fs, newPath, ContentOf(fs, oldPath)), oldPath),
                 Resolved(TRUE))

\* Mutation of statOutcome: size is the length of the path, not of the content.
statOutcome_SizeOfPath(fs, filePath) ==
    IF ~Has(fs, filePath)
    THEN Outcome(fs, Rejected("Error", "Path ", filePath, " does not exist"))
    ELSE Outcome(fs, Resolved([path |-> filePath, absolutePath |-> filePath,
                               isFile |-> TRUE, isDirectory |-> FALSE,
                               isSymbolicLink |-> FALSE,
                               size |-> Len(filePath)]))

\* The three timestamps are new Date() at the time of the call and are left out.
statOutcome(fs, filePath) ==
    IF ~Has(fs, filePath)
    THEN Outcome(fs, Rejected("Error", "Path ", filePath, " does not exist"))
    ELSE Outcome(fs, Resolved([path |-> filePath, absolutePath |-> filePath,
                               isFile |-> TRUE, isDirectory |-> FALSE,
                               isSymbolicLink |-> FALSE,
                               size |-> Len(ContentOf(fs, filePath))]))

(***************************************************************************)
(* createDirectory, watch, executeCommand: no store access at all.         *)
(***************************************************************************)
\* Mutation of createDirectoryOutcome: the directory becomes an entry.
createDirectoryOutcome_CreatesEntry(fs, path, recursiveOption) ==
    Outcome(Assign(fs, path, <<>>), Resolved(TRUE))

createDirectoryOutcome(fs, path, recursiveOption) ==
    Outcome(fs, Resolved(TRUE))

watchOutcome(fs, dir) ==
    Outcome(fs, Resolved("null"))

NotSupported ==
    <<"C", "o", "m", "m", "a", "n", "d", " ", "e", "x", "e", "c", "u", "t", "i", "o", "n", " ", "n", "o", "t", " ", "s", "u", "p", "p", "o", "r", "t", "e", "d", " ", "i", "n", " ", "b", "r", "o", "w", "s", "e", "r">>

NotImplemented ==
    <<"N", "o", "t", " ", "i", "m", "p", "l", "e", "m", "e", "n", "t", "e", "d">>

\* Mutation of executeCommandOutcome: the call throws instead of reporting.
executeCommandOutcome_Throws(fs, command) ==
    Outcome(fs, Rejected("Error", NotImplemented, <<>>, ""))

executeCommandOutcome(fs, command) ==
    Outcome(fs, Resolved([ok |-> FALSE, stdout |-> <<>>, stderr |-> NotSupported,
                          exitCode |-> 1, error |-> NotImplemented]))

(***************************************************************************)
(* getDirectoryTree.  The generator is modelled as consumed to completion  *)
(* by one for-await loop: the paths it yields, in order, and the arguments *)
(* its ignore predicate was called with.                                   *)
(***************************************************************************)
\* the recursive option: "omitted" takes the default true
RecursiveOptions ==
    {"omitted", "true", "false"}

RecursiveOf(option) ==
    IF option = "omitted" THEN TRUE ELSE option = "true"

\* Mutation of normalizedPath: only one slash is removed at each end.
normalizedPath_StripsOneSlash(path) ==
    IF path = <<"/">>
    THEN <<"/">>
    ELSE LET t == IF path # <<>> /\ Head(path) = "/" THEN Tail(path) ELSE path
         IN  <<"/">> \o (IF t # <<>> /\ t[Len(t)] = "/" THEN SubSeq(t, 1, Len(t) - 1) ELSE t)

\* path === "/" ? "/" : `/${path.replace(/^\/+|\/+$/g, "")}`
normalizedPath(path) ==
    IF path = <<"/">> THEN <<"/">> ELSE <<"/">> \o StripSlashes(path)

\* Mutation of isMatchingFile: the recursive test leaves out the "/" after the
\* directory.
isMatchingFile_PrefixOnly(filePath, normalized, recursive) ==
    IF normalized = <<"/">>
    THEN TRUE
    ELSE IF recursive
    THEN StartsWith(filePath, normalized)
    ELSE LET relative == Substring(filePath, Len(normalized) + 1)
         IN  relative # <<>> /\ ~Includes(relative, <<"/">>)

\* Mutation of isMatchingFile: the root directory honours recursive: false.
isMatchingFile_RootChildrenOnly(filePath, normalized, recursive) ==
    IF normalized = <<"/">>
    THEN recursive \/ ~Includes(Substring(filePath, 1), <<"/">>)
    ELSE IF recursive
    THEN StartsWith(filePath, normalized \o <<"/">>)
    ELSE LET relative == Substring(filePath, Len(normalized) + 1)
         IN  relative # <<>> /\ ~Includes(relative, <<"/">>)

\* the filter callback of matchingFiles
isMatchingFile(filePath, normalized, recursive) ==
    IF normalized = <<"/">>
    THEN TRUE
    ELSE IF recursive
    THEN StartsWith(filePath, normalized \o <<"/">>)
    ELSE LET relative == Substring(filePath, Len(normalized) + 1)
         IN  relative # <<>> /\ ~Includes(relative, <<"/">>)

matchingFiles(fs, normalized, recursive) ==
    SelectSeq(Keys(fs), LAMBDA filePath : isMatchingFile(filePath, normalized, recursive))

\* relativePath in the yield loop
relativePath(filePath, normalized) ==
    IF normalized = <<"/">>
    THEN Substring(filePath, 1)
    ELSE Substring(filePath, Len(normalized) + 1)

getDirectoryTreeOutcome(fs, path, recursiveOption, ig) ==
    LET normalized == normalizedPath(path)
        matching == matchingFiles(fs, normalized, RecursiveOf(recursiveOption))
    IN  [store |-> fs,
         result |-> Resolved(SelectSeq(matching,
                        LAMBDA filePath :
                            ~(Given(ig) /\ Apply(ig, relativePath(filePath, normalized))))),
         igCalls |-> IF Given(ig)
                     THEN [i \in 1..Len(matching) |-> relativePath(matching[i], normalized)]
                     ELSE <<>>]

(***************************************************************************)
(* glob and grep.                                                          *)
(***************************************************************************)
\* Mutation of globOutcome: a pattern other than "*" must occur in the path.
globOutcome_HonorsPattern(fs, pattern, ignoreFilter) ==
    Outcome(fs, Resolved(SelectSeq(Keys(fs),
                    LAMBDA file :
                        /\ pattern = <<"*">> \/ Includes(file, pattern)
                        /\ ~Given(ignoreFilter) \/ ~Apply(ignoreFilter, file))))

globOutcome(fs, pattern, ignoreFilter) ==
    Outcome(fs, Resolved(SelectSeq(Keys(fs),
                    LAMBDA file : ~Given(ignoreFilter) \/ ~Apply(ignoreFilter, file))))

\* a string, or an array of strings, as the searchString argument
SearchString(str) ==
    [isArray |-> FALSE, items |-> <<str>>]

SearchArray(items) ==
    [isArray |-> TRUE, items |-> items]

\* a string value, or undefined
Defined(str) ==
    [defined |-> TRUE, text |-> str]

Undefined ==
    [defined |-> FALSE, text |-> <<>>]

\* Array.isArray(searchString) ? searchString[0] : searchString; the first
\* element of an empty array is undefined
searchOf(searchString) ==
    IF searchString.items = <<>> THEN Undefined ELSE Defined(searchString.items[1])

\* line.includes(search): an undefined argument is converted to the text
\* "undefined"
lineIncludes(line, search) ==
    Includes(line, IF search.defined
                   THEN search.text
                   ELSE <<"u", "n", "d", "e", "f", "i", "n", "e", "d">>)

\* the content field of a grep record: null, or the context lines
NullContent ==
    [isNull |-> TRUE, text |-> <<>>]

TextContent(text) ==
    [isNull |-> FALSE, text |-> text]

\* Mutation of grepRecord: the line number is the 0-based index.
grepRecord_ZeroBasedLine(file, lines, i, search, linesBefore, linesAfter) ==
    LET start == Max(0, i - linesBefore)
        end == Min(Len(lines) - 1, i + linesAfter)
    IN  [file |-> file,
         line |-> i,
         match |-> lines[i + 1],
         matchedString |-> search,
         content |-> IF linesBefore > 0 \/ linesAfter > 0
                     THEN TextContent(JoinLines(Slice(lines, start, end + 1)))
                     ELSE NullContent]

\* Mutation of grepRecord: the slice stops before the last context line.
grepRecord_SliceExcludesEnd(file, lines, i, search, linesBefore, linesAfter) ==
    LET start == Max(0, i - linesBefore)
        end == Min(Len(lines) - 1, i + linesAfter)
    IN  [file |-> file,
         line |-> i + 1,
         match |-> lines[i + 1],
         matchedString |-> search,
         content |-> IF linesBefore > 0 \/ linesAfter > 0
                     THEN TextContent(JoinLines(Slice(lines, start, end)))
                     ELSE NullContent]

\* the record pushed for the matching line at 0-based index i
grepRecord(file, lines, i, search, linesBefore, linesAfter) ==
    LET start == Max(0, i - linesBefore)
        end == Min(Len(lines) - 1, i + linesAfter)
    IN  [file |-> file,
         line |-> i + 1,
         match |-> lines[i + 1],
         matchedString |-> search,
         content |-> IF linesBefore > 0 \/ linesAfter > 0
                     THEN TextContent(JoinLines(Slice(lines, start, end + 1)))
                     ELSE NullContent]

\* the records of one entry: the inner loop over its lines
grepFile(file, content, search, linesBefore, linesAfter) ==
    LET lines == SplitLines(content)
        hits == SelectSeq([k \in 1..Len(lines) |-> k - 1],
                          LAMBDA i : lineIncludes(lines[i + 1], search))
    IN  [k \in 1..Len(hits) |->
            grepRecord(file, lines, hits[k], search, linesBefore, linesAfter)]

\* the outer loop over Object.entries(mockFileSystem), from entry n on
RECURSIVE grepFrom(_, _, _, _, _, _)
grepFrom(fs, n, search, ignoreFilter, linesBefore, linesAfter) ==
    IF n > Len(fs)
    THEN <<>>
    ELSE (IF Given(ignoreFilter) /\ Apply(ignoreFilter, fs[n].key)
          THEN <<>>
          ELSE grepFile(fs[n].key, fs[n].content, search, linesBefore, linesAfter))
         \o grepFrom(fs, n + 1, search, ignoreFilter, linesBefore, linesAfter)

\* includeContent.linesBefore / linesAfter: a number, or not specified
ContextLines(n) ==
    [given |-> TRUE, lines |-> n]

Unspecified ==
    [given |-> FALSE, lines |-> 0]

\* const { linesBefore = 0, linesAfter = 0 } = includeContent || {}
linesOrZero(option) ==
    IF option.given THEN option.lines ELSE 0

grepOutcome(fs, searchString, ignoreFilter, linesBefore, linesAfter) ==
    Outcome(fs, Resolved(grepFrom(fs, 1, searchOf(searchString), ignoreFilter,
                                  linesOrZero(linesBefore), linesOrZero(linesAfter))))

(***************************************************************************)
(* The plugin (plugin.ts).  config.filesystem is absent, or holds the      *)
(* providers object: provider names with their configured type, in the     *)
(* order for-in enumerates them.                                           *)
(***************************************************************************)
NoFilesystem ==
    [hasFilesystem |-> FALSE, providers |-> <<>>]

Filesystem(providerList) ==
    [hasFilesystem |-> TRUE, providers |-> providerList]

\* the plugin before install: nothing waits for the FileSystemService, which
\* is not in the service registry yet, and nothing is registered with it
NotInstalled ==
    [installed |-> FALSE, config |-> NoFilesystem, waiting |-> FALSE,
     available |-> FALSE, fired |-> FALSE, registered |-> <<>>]

\* Mutation of registrationsOf: the configured type is not looked at.
registrationsOf_AnyType(providerList, constructed) ==
    [k \in 1..Len(providerList) |->
        [name |-> providerList[k].name, provider |-> constructed + k]]

\* the registerFileSystemProvider calls of the callback's loop, in order,
\* when `constructed` instances exist already: each call gets a new
\* BrowserFileSystemProvider
registrationsOf(providerList, constructed) ==
    LET browsers == SelectSeq(providerList, LAMBDA p : p.type = "browser")
    IN  [k \in 1..Len(browsers) |->
            [name |-> browsers[k].name, provider |-> constructed + k]]

(***************************************************************************)
(* State machine: one action per method call.  No method awaits anything,  *)
(* so a call runs to completion as one step.                               *)
(***************************************************************************)
Init ==
    /\ mockFileSystem = SeedFileSystem
    /\ before = SeedFileSystem
    /\ op = NoCall
    /\ result = Resolved(TRUE)
    /\ calls = 0
    /\ igCalls = <<>>
    /\ providers = 1
    /\ self = 1
    /\ generators = <<>>
    /\ frames = <<>>
    /\ plugin = NotInstalled

\* A call on any constructed instance.  The methods never use `this`: every
\* instance reads and writes the one module-level mockFileSystem.
Settle(call, outcome) ==
    /\ calls < MaxCalls
    /\ calls' = calls + 1
    /\ before' = mockFileSystem
    /\ op' = call
    /\ mockFileSystem' = outcome.store
    /\ result' = outcome.result
    /\ igCalls' = IF "igCalls" \in DOMAIN outcome THEN outcome.igCalls ELSE <<>>
    /\ providers' = providers
    /\ self' \in 1..providers
    /\ generators' = generators
    /\ frames' = frames
    /\ plugin' = plugin

readFile ==
    \E p \in Paths :
        Settle(Call("readFile", p, <<>>, <<>>, FALSE), readFileOutcome(mockFileSystem, p))

writeFile ==
    \E p \in Paths, c \in Contents :
        Settle(Call("writeFile", p, c, <<>>, FALSE), writeFileOutcome(mockFileSystem, p, c))

appendFile ==
    \E p \in Paths, c \in Contents :
        Settle(Call("appendFile", p, c, <<>>, FALSE), appendFileOutcome(mockFileSystem, p, c))

deleteFile ==
    \E p \in Paths :
        Settle(Call("deleteFile", p, <<>>, <<>>, FALSE), deleteFileOutcome(mockFileSystem, p))

exists ==
    \E p \in Paths :
        Settle(Call("exists", p, <<>>, <<>>, FALSE), existsOutcome(mockFileSystem, p))

copy ==
    \E s \in Paths, d \in Paths, ow \in BOOLEAN :
        Settle(Call("copy", s, <<>>, d, ow), copyOutcome(mockFileSystem, s, d, ow))

rename ==
    \E s \in Paths, d \in Paths :
        Settle(Call("rename", s, <<>>, d, FALSE), renameOutcome(mockFileSystem, s, d))

stat ==
    \E p \in Paths :
        Settle(Call("stat", p, <<>>, <<>>, FALSE), statOutcome(mockFileSystem, p))

DirectoryCall(name, path, recursiveOption) ==
    [name |-> name, path |-> path, recursive |-> recursiveOption]

createDirectory ==
    \E p \in Paths, r \in RecursiveOptions :
        Settle(DirectoryCall("createDirectory", p, r),
               createDirectoryOutcome(mockFileSystem, p, r))

watch ==
    \E d \in Paths :
        Settle(DirectoryCall("watch", d, "omitted"), watchOutcome(mockFileSystem, d))

\* a command line as a string, or as an array of words
Commands ==
    { SearchString(<<"l", "s">>), SearchArray(<< <<"r", "m">>, <<"/", "a">> >>) }

CommandCall(command) ==
    [name |-> "executeCommand", command |-> command]

executeCommand ==
    \E c \in Commands :
        Settle(CommandCall(c), executeCommandOutcome(mockFileSystem, c))

Next ==
    \/ readFile
    \/ writeFile
    \/ appendFile
    \/ deleteFile
    \/ exists
    \/ copy
    \/ rename
    \/ stat
    \/ createDirectory
    \/ watch
    \/ executeCommand

Spec ==
    Init /\ [][Next]_vars

(***************************************************************************)
(* Second instances.  The class declares no constructor and no fields:     *)
(* new BrowserFileSystemProvider() leaves mockFileSystem as it is.         *)
(***************************************************************************)
\* Bound on the number of provider instances constructed.
MaxProviders == 2

constructProvider ==
    /\ providers < MaxProviders
    /\ providers' = providers + 1
    /\ self' = providers + 1
    /\ op' = Call("new", <<>>, <<>>, <<>>, FALSE)
    /\ result' = Resolved(TRUE)
    /\ before' = mockFileSystem
    /\ igCalls' = <<>>
    /\ UNCHANGED <<mockFileSystem, calls, generators, frames, plugin>>

NextInstances ==
    \/ constructProvider
    \/ Next

SpecInstances ==
    Init /\ [][NextInstances]_vars

\* the store the methods of instance i operate on
storeOf(i) ==
    mockFileSystem

(***************************************************************************)
(* Queries over stores.  deleteFile removes nothing and rename keeps the   *)
(* number of entries, so a store never has fewer than the four seed        *)
(* entries; renames and writes from the seed reach every store of four     *)
(* distinct keys, in every order, with any string contents.                *)
(***************************************************************************)
\* all stores with as many entries as the seed, of distinct keys, drawn
\* from entries
StoresOver(entries) ==
    { fs \in [1..Len(SeedFileSystem) -> entries] :
          \A i, j \in 1..Len(SeedFileSystem) : fs[i].key = fs[j].key => i = j }

InitWith(stores) ==
    /\ mockFileSystem \in stores
    /\ before = mockFileSystem
    /\ op = NoCall
    /\ result = Resolved(TRUE)
    /\ calls = 0
    /\ igCalls = <<>>
    /\ providers = 1
    /\ self = 1
    /\ generators = <<>>
    /\ frames = <<>>
    /\ plugin = NotInstalled

(***************************************************************************)
(* Traversal and glob: stores over the seed keys, a sibling of /src whose  *)
(* name starts with "src", a key equal to the directory /src, and a key    *)
(* without the leading slash.                                              *)
(***************************************************************************)
\* path and pattern literals used as arguments
SRC ==
    <<"/", "s", "r", "c">>

SRCFOO ==
    <<"/", "s", "r", "c", "f", "o", "o">>

SRCFOO_X ==
    <<"/", "s", "r", "c", "f", "o", "o", "/", "x">>

SRC_COMPONENTS ==
    <<"/", "s", "r", "c", "/", "c", "o", "m", "p", "o", "n", "e", "n", "t", "s">>

NONE ==
    <<"/", "n", "o", "n", "e">>

DOT_JSX ==
    <<".", "j", "s", "x">>

COMPONENTS_SLASH ==
    <<"c", "o", "m", "p", "o", "n", "e", "n", "t", "s", "/">>

TreePaths ==
    { README_md_path, index_js_path, Button_jsx_path, package_json_path,
      SRCFOO_X, SRC, <<"a">> }

TreeContents(k) ==
    IF Has(SeedFileSystem, k) THEN {ContentOf(SeedFileSystem, k)} ELSE {<<"x">>}

TreeStores ==
    StoresOver(UNION { { [key |-> k, content |-> c] : c \in TreeContents(k) } : k \in TreePaths })

TreeDirs ==
    { <<"/">>, SRC, SRC \o <<"/">>, Tail(SRC), <<"/">> \o SRC \o <<"/", "/">>,
      <<>>, <<"/", "/">>, SRC_COMPONENTS, SRCFOO, NONE }

Filters ==
    { NoFilter, IncludesFilter(DOT_JSX), IncludesFilter(COMPONENTS_SLASH) }

Patterns ==
    { <<"*">>, DOT_JSX }

TreeCall(path, recursiveOption, ig) ==
    [name |-> "getDirectoryTree", path |-> path, recursive |-> recursiveOption, ig |-> ig]

GlobCall(pattern, ignoreFilter) ==
    [name |-> "glob", pattern |-> pattern, ignoreFilter |-> ignoreFilter]

\* The queries leave the store as it is, so a second query of a behaviour
\* would meet the store of the first: one query is made per behaviour.
getDirectoryTree ==
    \E d \in TreeDirs, r \in RecursiveOptions, ig \in Filters :
        /\ calls = 0
        /\ Settle(TreeCall(d, r, ig), getDirectoryTreeOutcome(mockFileSystem, d, r, ig))

glob ==
    \E pattern \in Patterns, f \in Filters :
        /\ calls = 0
        /\ Settle(GlobCall(pattern, f), globOutcome(mockFileSystem, pattern, f))

NextTree ==
    \/ getDirectoryTree
    \/ glob

SpecTree ==
    InitWith(TreeStores) /\ [][NextTree]_vars

(***************************************************************************)
(* grep: stores of four files whose contents have zero to three lines,     *)
(* lines with several occurrences, empty lines and a trailing newline.     *)
(***************************************************************************)
\* Bound on the linesBefore and linesAfter options.
MaxContext == 2

GrepPaths ==
    { <<"/", "f">>, <<"/", "g">>, <<"/", "d", "/", "h">>, <<"h">> }

GrepContents(k) ==
    IF k = <<"h">>
    THEN { <<"A", "b">> }
    ELSE { <<>>,
           <<"a", "\n", "a", "b", "a", "b", "\n", "b">>,
           <<"a", "b", "\n", "\n", "b", "a", "\n">> }

GrepStores ==
    StoresOver(UNION { { [key |-> k, content |-> c] : c \in GrepContents(k) } : k \in GrepPaths })

Searches ==
    { SearchString(<<"a", "b">>), SearchString(<<"a">>), SearchString(<<>>),
      SearchString(<<"c">>),
      SearchArray(<<<<"b">>, <<"a">>>>), SearchArray(<<>>) }

GrepFilters ==
    { NoFilter, IncludesFilter(<<"/", "d", "/">>) }

GrepCall(searchString, ignoreFilter, linesBefore, linesAfter) ==
    [name |-> "grep", searchString |-> searchString, ignoreFilter |-> ignoreFilter,
     linesBefore |-> linesBefore, linesAfter |-> linesAfter]

ContextOptions ==
    { Unspecified } \cup { ContextLines(n) : n \in 0..MaxContext }

grep ==
    \E ss \in Searches, f \in GrepFilters, lb \in ContextOptions, la \in ContextOptions :
        /\ calls = 0
        /\ Settle(GrepCall(ss, f, lb, la), grepOutcome(mockFileSystem, ss, f, lb, la))

SpecGrep ==
    InitWith(GrepStores) /\ [][grep]_vars

(***************************************************************************)
(* Path spellings: the file methods over paths that differ only in a       *)
(* leading slash, a trailing slash or letter case.                         *)
(***************************************************************************)
KeyPaths ==
    { README_md_path, Tail(README_md_path),
      <<"/", "r", "e", "a", "d", "m", "e", ".", "m", "d">>,
      <<"/", "a">>, <<"a">>, <<"/", "a", "/">> }

MethodCalls(paths) ==
    \/ \E p \in paths :
           Settle(Call("readFile", p, <<>>, <<>>, FALSE), readFileOutcome(mockFileSystem, p))
    \/ \E p \in paths, c \in Contents :
           Settle(Call("writeFile", p, c, <<>>, FALSE), writeFileOutcome(mockFileSystem, p, c))
    \/ \E p \in paths, c \in Contents :
           Settle(Call("appendFile", p, c, <<>>, FALSE), appendFileOutcome(mockFileSystem, p, c))
    \/ \E p \in paths :
           Settle(Call("exists", p, <<>>, <<>>, FALSE), existsOutcome(mockFileSystem, p))
    \/ \E p \in paths :
           Settle(Call("stat", p, <<>>, <<>>, FALSE), statOutcome(mockFileSystem, p))
    \/ \E s \in paths, d \in paths, ow \in BOOLEAN :
           Settle(Call("copy", s, <<>>, d, ow), copyOutcome(mockFileSystem, s, d, ow))
    \/ \E s \in paths, d \in paths :
           Settle(Call("rename", s, <<>>, d, FALSE), renameOutcome(mockFileSystem, s, d))

NextKeys ==
    MethodCalls(KeyPaths)

SpecKeys ==
    Init /\ [][NextKeys]_vars

(***************************************************************************)
(* getDirectoryTree as an async generator.  The call returns a generator   *)
(* object without running any of the body; the body runs from the start to *)
(* the first yield at the first next(), and from yield to yield at each    *)
(* later one.  Other provider calls may be made between any two of these   *)
(* steps.                                                                  *)
(***************************************************************************)
\* Bound on the number of getDirectoryTree invocations in one behaviour.
MaxGenerators == 2

\* a generator object before its first next(); atCall records the store at
\* the time of the call
NewGenerator(fs, path, recursiveOption, ig) ==
    [path |-> path, recursive |-> recursiveOption, ig |-> ig,
     started |-> FALSE, done |-> FALSE,
     matching |-> <<>>, index |-> 1, yielded |-> <<>>, atCall |-> fs]

\* one next() on generator g while the store is fs: the first next() runs
\* Object.keys(mockFileSystem).filter(...), every next() walks on through
\* matchingFiles to the next path the ignore predicate lets through
nextStep(g, fs) ==
    LET normalized == normalizedPath(g.path)
        matching == IF g.started
                    THEN g.matching
                    ELSE matchingFiles(fs, normalized, RecursiveOf(g.recursive))
        passing == { j \in g.index..Len(matching) :
                        ~(Given(g.ig) /\ Apply(g.ig, relativePath(matching[j], normalized))) }
    IN  IF passing = {}
        THEN [g EXCEPT !.started = TRUE, !.matching = matching,
                       !.index = Len(matching) + 1, !.done = TRUE]
        ELSE LET j == CHOOSE k \in passing : \A l \in passing : k <= l
             IN  [g EXCEPT !.started = TRUE, !.matching = matching,
                           !.index = j + 1, !.yielded = Append(@, matching[j])]

SRC_B ==
    SRC \o <<"/", "b">>

GeneratorDirs ==
    { <<"/">>, SRC }

GeneratorFilters ==
    { NoFilter, IncludesFilter(DOT_JSX) }

\* const g = provider.getDirectoryTree(path, {ig, recursive})
callGetDirectoryTree ==
    \E d \in GeneratorDirs, ig \in GeneratorFilters :
        /\ Len(generators) < MaxGenerators
        /\ generators' = Append(generators, NewGenerator(mockFileSystem, d, "omitted", ig))
        /\ UNCHANGED <<mockFileSystem, before, op, result, calls, igCalls, providers, self, frames,
                       plugin>>

\* await g.next() on a generator that has not completed
next ==
    \E i \in 1..Len(generators) :
        /\ ~generators[i].done
        /\ generators' = [generators EXCEPT ![i] = nextStep(generators[i], mockFileSystem)]
        /\ UNCHANGED <<mockFileSystem, before, op, result, calls, igCalls, providers, self, frames,
                       plugin>>

\* provider calls made while generators are open: a new entry under /src,
\* an entry moved out of /src
writeWhileOpen ==
    Settle(Call("writeFile", SRC_B, <<"x">>, <<>>, FALSE),
           writeFileOutcome(mockFileSystem, SRC_B, <<"x">>))

renameWhileOpen ==
    Settle(Call("rename", index_js_path, <<>>, <<"/", "a">>, FALSE),
           renameOutcome(mockFileSystem, index_js_path, <<"/", "a">>))

NextGenerators ==
    \/ callGetDirectoryTree
    \/ next
    \/ writeWhileOpen
    \/ renameWhileOpen

SpecGenerators ==
    Init /\ [][NextGenerators]_vars

(***************************************************************************)
(* Calls from several callers.  writeFile, appendFile, copy and rename are *)
(* async functions without an await: JavaScript runs the body of a call    *)
(* from its first statement to its return before any other caller's code   *)
(* gets to run.  The body is modelled statement by statement (the checks,  *)
(* the store assignment, the rest), and MayStep is the scheduling rule.    *)
(***************************************************************************)
\* Bound on the number of callers, each making one call.
MaxCallers == 2

Pending ==
    [kind |-> "pending"]

Passed ==
    [kind |-> "passed"]

TypeError ==
    Rejected("TypeError", "Cannot read properties of undefined (reading 'content')",
             <<>>, "")

\* the if-statements at the start of the body: the error thrown, or Passed
checksOf(fs, call) ==
    IF call.name = "copy"
    THEN IF ~Has(fs, call.path)
         THEN Rejected("Error", "Source file not found: ", call.path, "")
         ELSE IF Has(fs, call.destination) /\ ~call.overwrite
         THEN Rejected("Error", "Destination file already exists: ", call.destination,
                       ". Use overwrite option to replace.")
         ELSE Passed
    ELSE IF call.name = "rename"
    THEN IF ~Has(fs, call.path)
         THEN Rejected("Error", "Source file not found: ", call.path, "")
         ELSE IF Has(fs, call.destination)
         THEN Rejected("Error", "Destination file already exists: ", call.destination, "")
         ELSE Passed
    ELSE Passed

\* the assignment statement reads the .content of the entry at call.path
readsEntry(call) ==
    call.name \in {"appendFile", "copy", "rename"}

\* the assignment statement  mockFileSystem[key] = { content: ... }  on store
\* fs: the store it leaves, or the TypeError of reading .content of undefined
assignmentOf(fs, call) ==
    IF readsEntry(call) /\ ~Has(fs, call.path)
    THEN Outcome(fs, TypeError)
    ELSE IF call.name = "writeFile"
    THEN Outcome(Assign(fs, call.path, call.content), Pending)
    ELSE IF call.name = "appendFile"
    THEN Outcome(Assign(fs, call.path, ContentOf(fs, call.path) \o call.content), Pending)
    ELSE Outcome(Assign(fs, call.destination, ContentOf(fs, call.path)), Pending)

\* the statements after the assignment: rename deletes the old entry; every
\* method then returns true
restOf(fs, call) ==
    IF call.name = "rename"
    THEN Outcome(Delete(fs, call.path), Resolved(TRUE))
    ELSE Outcome(fs, Resolved(TRUE))

\* Mutation of MayStep: a body may be suspended between two statements.
MayStep_Interleaves(i) ==
    TRUE

\* caller i may run a statement: no other caller's call is inside its body
MayStep(i) ==
    \A j \in 1..Len(frames) : j # i => frames[j].pc = "settled"

ConcurrentCalls ==
    { Call("rename", README_md_path, <<>>, <<"/", "a">>, FALSE),
      Call("rename", index_js_path, <<>>, <<"/", "a">>, FALSE),
      Call("copy", README_md_path, <<>>, <<"/", "a">>, FALSE),
      Call("copy", index_js_path, <<>>, <<"/", "a">>, FALSE),
      Call("copy", package_json_path, <<>>, README_md_path, TRUE),
      Call("writeFile", <<"/", "a">>, <<"x">>, <<>>, FALSE),
      Call("appendFile", README_md_path, <<"x">>, <<>>, FALSE),
      Call("appendFile", README_md_path, <<"y">>, <<>>, FALSE),
      Call("appendFile", <<"/", "a">>, <<"y">>, <<>>, FALSE) }

\* a caller makes its call: the body starts at once and runs its checks
enterCall ==
    \E call \in ConcurrentCalls :
        /\ Len(frames) < MaxCallers
        /\ MayStep(Len(frames) + 1)
        /\ frames' = Append(frames,
                            IF checksOf(mockFileSystem, call) = Passed
                            THEN [call |-> call, pc |-> "checked", result |-> Pending]
                            ELSE [call |-> call, pc |-> "settled",
                                  result |-> checksOf(mockFileSystem, call)])
        /\ UNCHANGED <<mockFileSystem, before, op, result, calls, igCalls, providers, self,
                       generators, plugin>>

\* the body of caller i runs its assignment statement
assignEntry ==
    \E i \in 1..Len(frames) :
        LET assigned == assignmentOf(mockFileSystem, frames[i].call)
        IN  /\ frames[i].pc = "checked"
            /\ MayStep(i)
            /\ mockFileSystem' = assigned.store
            /\ frames' = [frames EXCEPT ![i].pc = IF assigned.result = Pending
                                                  THEN "assigned"
                                                  ELSE "settled",
                                        ![i].result = assigned.result]
            /\ UNCHANGED <<before, op, result, calls, igCalls, providers, self, generators, plugin>>

\* the body of caller i runs to its return
returnTrue ==
    \E i \in 1..Len(frames) :
        LET rest == restOf(mockFileSystem, frames[i].call)
        IN  /\ frames[i].pc = "assigned"
            /\ MayStep(i)
            /\ mockFileSystem' = rest.store
            /\ frames' = [frames EXCEPT ![i].pc = "settled", ![i].result = rest.result]
            /\ UNCHANGED <<before, op, result, calls, igCalls, providers, self, generators, plugin>>

NextCallers ==
    \/ enterCall
    \/ assignEntry
    \/ returnTrue

SpecCallers ==
    Init /\ [][NextCallers]_vars

(***************************************************************************)
(* Enumeration order: the file methods over an existing path, a new        *)
(* absolute path and two paths that are array indices.                     *)
(***************************************************************************)
OrderPaths ==
    { README_md_path, <<"/", "a">>, <<"2">>, <<"1", "0">> }

NextOrder ==
    MethodCalls(OrderPaths)

SpecOrder ==
    Init /\ [][NextOrder]_vars

(***************************************************************************)
(* Plugin installation against an application whose FileSystemService is   *)
(* added to the service registry before or after install is called.        *)
(***************************************************************************)
\* Bound on the number of providers in config.filesystem.providers.
MaxConfigured == 2

ProviderNames ==
    { "browser", "local", "memory" }

ProviderTypes ==
    { "browser", "local", "Browser" }

\* the providers objects: distinct names, each with a type
ProviderLists ==
    { list \in UNION { [1..n -> [name : ProviderNames, type : ProviderTypes]] :
                          n \in 0..MaxConfigured } :
          \A i, j \in 1..Len(list) : list[i].name = list[j].name => i = j }

Configurations ==
    { NoFilesystem } \cup { Filesystem(list) : list \in ProviderLists }

\* install(app, config): with config.filesystem, the callback is handed to
\* app.services.waitForItemByType
install ==
    \E config \in Configurations :
        /\ ~plugin.installed
        /\ plugin' = [plugin EXCEPT !.installed = TRUE, !.config = config,
                                    !.waiting = config.hasFilesystem]
        /\ UNCHANGED <<mockFileSystem, before, op, result, calls, igCalls, providers, self,
                       generators, frames>>

\* the application adds its FileSystemService to the service registry
addFileSystemService ==
    /\ ~plugin.available
    /\ plugin' = [plugin EXCEPT !.available = TRUE]
    /\ UNCHANGED <<mockFileSystem, before, op, result, calls, igCalls, providers, self,
                   generators, frames>>

\* the registry calls the waiting callback with the service: the loop over
\* config.filesystem.providers
callback ==
    LET registrations == registrationsOf(plugin.config.providers, providers)
    IN  /\ plugin.waiting
        /\ plugin.available
        /\ plugin' = [plugin EXCEPT !.waiting = FALSE, !.fired = TRUE,
                                    !.registered = @ \o registrations]
        /\ providers' = providers + Len(registrations)
        /\ UNCHANGED <<mockFileSystem, before, op, result, calls, igCalls, self,
                       generators, frames>>

NextPlugin ==
    \/ install
    \/ addFileSystemService
    \/ callback

SpecPlugin ==
    Init /\ [][NextPlugin]_vars

(***************************************************************************)
(* Observations used by the properties.  Every key of the store is a path  *)
(* of Paths: the seed keys are in Paths and every argument comes from it.  *)
(***************************************************************************)
\* what an immediately following readFile(p) settles to
ReadNow(p) ==
    readFileOutcome(mockFileSystem, p).result

\* the entry at p is the same after the last call as before it
SameEntry(p) ==
    /\ Has(mockFileSystem, p) = Has(before, p)
    /\ Has(before, p) => ContentOf(mockFileSystem, p) = ContentOf(before, p)

TypeOK ==
    /\ \A i \in 1..Len(mockFileSystem) : mockFileSystem[i].key \in Paths
    /\ \A i, j \in 1..Len(mockFileSystem) :
           mockFileSystem[i].key = mockFileSystem[j].key => i = j
    /\ calls \in 0..MaxCalls

(***************************************************************************)
(* C11.  Failure atomicity: whenever a call signals an error (readFile or  *)
(* stat on an absent path, copy or rename with an absent source or a       *)
(* conflicting destination, a failing appendFile or deleteFile) the store  *)
(* after the call is identical to the store before it.                     *)
(***************************************************************************)
C11_FailureAtomicity ==
    result.kind = "rejected" => mockFileSystem = before

\* a failed copy from an absent source has created nothing at an absent destination
C11_Witness ==
    /\ op.name = "copy"
    /\ ~Has(before, op.path)
    /\ ~Has(before, op.destination)
    /\ op.path # op.destination
    /\ result.kind = "rejected"
    /\ ~Has(mockFileSystem, op.destination)
    /\ calls = 2
    /\ mockFileSystem # SeedFileSystem

(***************************************************************************)
(* C1.  Round trip: writeFile(p, c) resolves to true and an immediately    *)
(* following readFile(p) yields exactly c, whether or not p held an entry  *)
(* before the call.                                                        *)
(***************************************************************************)
C1_WriteReadRoundTrip ==
    op.name = "writeFile" =>
        /\ result = Resolved(TRUE)
        /\ ReadNow(op.path) = Resolved(op.content)

\* writeFile has replaced an existing entry that held different content
C1_Witness ==
    /\ op.name = "writeFile"
    /\ Has(before, op.path)
    /\ ContentOf(before, op.path) # op.content
    /\ op.content # <<>>
    /\ ReadNow(op.path) = Resolved(op.content)

(***************************************************************************)
(* C2.  appendFile on an existing entry concatenates: if readFile(p)       *)
(* yielded c1 before the call, appendFile(p, c2) resolves to true and      *)
(* readFile(p) then yields c1 followed by c2.  Holding for every call in   *)
(* every reachable state, it gives the concatenation in call order for n   *)
(* successive appends.                                                     *)
(***************************************************************************)
C2_AppendConcatenates ==
    (op.name = "appendFile" /\ Has(before, op.path)) =>
        /\ result = Resolved(TRUE)
        /\ ReadNow(op.path) =
               Resolved(readFileOutcome(before, op.path).result.value \o op.content)

\* two successive appends to the seed README: "x" first, then "y"
C2_Witness ==
    /\ op.name = "appendFile"
    /\ op.path = README_md_path
    /\ calls = 2
    /\ ReadNow(README_md_path) = Resolved(README_md_content \o <<"x">> \o <<"y">>)

(***************************************************************************)
(* C3.  appendFile(p, c) on a path with no entry never fails: it resolves  *)
(* to true and creates the entry, so exists(p) is true and readFile(p)     *)
(* yields exactly c.                                                       *)
(***************************************************************************)
C3_AppendCreatesMissing ==
    (op.name = "appendFile" /\ ~Has(before, op.path)) =>
        /\ result = Resolved(TRUE)
        /\ existsOutcome(mockFileSystem, op.path).result = Resolved(TRUE)
        /\ ReadNow(op.path) = Resolved(op.content)

(***************************************************************************)
(* C4.  Delete idempotence: deleteFile(p) resolves to true whether or not  *)
(* p has an entry; afterwards exists(p) is false and every other entry is  *)
(* unchanged.                                                              *)
(***************************************************************************)
C4_DeleteIdempotent ==
    op.name = "deleteFile" =>
        /\ result = Resolved(TRUE)
        /\ existsOutcome(mockFileSystem, op.path).result = Resolved(FALSE)
        /\ \A p \in Paths \ {op.path} : SameEntry(p)

(***************************************************************************)
(* C5.  A copy(src, dst, {overwrite}) that succeeds (src exists, and dst   *)
(* is absent or overwrite is true) resolves to true; afterwards            *)
(* readFile(dst) equals readFile(src), src's content is what it was before *)
(* the call, and every entry other than dst is unchanged.                  *)
(***************************************************************************)
C5_CopySucceeds ==
    (/\ op.name = "copy"
     /\ Has(before, op.path)
     /\ (~Has(before, op.destination) \/ op.overwrite)) =>
        /\ result = Resolved(TRUE)
        /\ ReadNow(op.destination) = ReadNow(op.path)
        /\ ReadNow(op.destination).kind = "resolved"
        /\ ReadNow(op.path) = readFileOutcome(before, op.path).result
        /\ \A p \in Paths \ {op.destination} : SameEntry(p)

\* copy with overwrite has replaced different content at another path
C5_Witness ==
    /\ op.name = "copy"
    /\ op.overwrite
    /\ op.path # op.destination
    /\ Has(before, op.path)
    /\ Has(before, op.destination)
    /\ ContentOf(before, op.destination) # ContentOf(before, op.path)
    /\ result = Resolved(TRUE)
    /\ ContentOf(mockFileSystem, op.destination) = ContentOf(before, op.path)

(***************************************************************************)
(* C6 as stated.  copy(src, dst) where dst already has an entry and        *)
(* overwrite is not true signals an error whose message names dst, and     *)
(* leaves the store unchanged.                                             *)
(***************************************************************************)
C6_CopyConflictAsStated ==
    (op.name = "copy" /\ Has(before, op.destination) /\ ~op.overwrite) =>
        /\ result.kind = "rejected"
        /\ result.path = op.destination
        /\ mockFileSystem = before

(***************************************************************************)
(* C6, amended.  copy(src, dst) where src has an entry, dst already has an *)
(* entry and overwrite is not true signals an error whose message names    *)
(* dst, and leaves dst's content and the rest of the store unchanged; this *)
(* also holds when src and dst are the same path.                          *)
(***************************************************************************)
C6_CopyConflict ==
    (/\ op.name = "copy"
     /\ Has(before, op.path)
     /\ Has(before, op.destination)
     /\ ~op.overwrite) =>
        /\ result = Rejected("Error", "Destination file already exists: ", op.destination,
                             ". Use overwrite option to replace.")
        /\ mockFileSystem = before

\* a rejected copy onto an existing destination that holds other content
C6_Witness ==
    /\ op.name = "copy"
    /\ ~op.overwrite
    /\ op.path # op.destination
    /\ Has(before, op.path)
    /\ Has(before, op.destination)
    /\ ContentOf(before, op.destination) # ContentOf(before, op.path)
    /\ result.kind = "rejected"
    /\ result.path = op.destination
    /\ ContentOf(mockFileSystem, op.destination) = ContentOf(before, op.destination)

(***************************************************************************)
(* C7.  A rename(src, dst) that succeeds (src exists, dst absent) resolves *)
(* to true; afterwards exists(src) is false, readFile(dst) equals the      *)
(* content src held before the call, the number of entries is unchanged,   *)
(* and every entry other than src and dst is unchanged.                    *)
(***************************************************************************)
C7_RenameSucceeds ==
    (op.name = "rename" /\ Has(before, op.path) /\ ~Has(before, op.destination)) =>
        /\ result = Resolved(TRUE)
        /\ existsOutcome(mockFileSystem, op.path).result = Resolved(FALSE)
        /\ ReadNow(op.destination) = readFileOutcome(before, op.path).result
        /\ Len(mockFileSystem) = Len(before)
        /\ \A p \in Paths \ {op.path, op.destination} : SameEntry(p)

\* a rename has moved non-empty content to a path that was absent
C7_Witness ==
    /\ op.name = "rename"
    /\ Has(before, op.path)
    /\ ~Has(before, op.destination)
    /\ ContentOf(before, op.path) # <<>>
    /\ result = Resolved(TRUE)
    /\ ~Has(mockFileSystem, op.path)
    /\ ContentOf(mockFileSystem, op.destination) = ContentOf(before, op.path)

(***************************************************************************)
(* C8 as stated.  rename(src, dst) where dst already has an entry always   *)
(* signals an error naming dst, and leaves the store unchanged.            *)
(***************************************************************************)
C8_RenameConflictAsStated ==
    (op.name = "rename" /\ Has(before, op.destination)) =>
        /\ result.kind = "rejected"
        /\ result.path = op.destination
        /\ mockFileSystem = before

(***************************************************************************)
(* C8, amended.  rename(src, dst) where src has an entry and dst already   *)
(* has an entry always signals an error naming dst, and leaves both src    *)
(* and dst present with their previous contents; this also holds for       *)
(* rename(p, p) on an existing p.                                          *)
(***************************************************************************)
C8_RenameConflict ==
    (op.name = "rename" /\ Has(before, op.path) /\ Has(before, op.destination)) =>
        /\ result = Rejected("Error", "Destination file already exists: ", op.destination, "")
        /\ Has(mockFileSystem, op.path)
        /\ Has(mockFileSystem, op.destination)
        /\ SameEntry(op.path)
        /\ SameEntry(op.destination)
        /\ mockFileSystem = before

\* a rejected rename onto another existing path that holds other content
C8_Witness ==
    /\ op.name = "rename"
    /\ op.path # op.destination
    /\ Has(before, op.path)
    /\ Has(before, op.destination)
    /\ ContentOf(before, op.destination) # ContentOf(before, op.path)
    /\ result.kind = "rejected"
    /\ result.path = op.destination
    /\ Has(mockFileSystem, op.path)

C10_ReadMissingReturnsNull ==
    (op.name = "readFile" /\ ~Has(before, op.path)) =>
        /\ result.kind = "resolved"
        /\ result.value = "null"
        /\ mockFileSystem = before


(***************************************************************************)
(* C12.  Provider instances do not share state: a writeFile, appendFile,   *)
(* copy or rename made through one instance leaves everything observable   *)
(* through every other instance (exists, readFile, glob, grep,             *)
(* getDirectoryTree) unchanged, and a newly constructed instance starts    *)
(* with exactly the four seed entries and their seed contents.             *)
(***************************************************************************)
\* everything the query methods report about store fs
Observable(fs) ==
    [exists |-> [p \in Paths |-> existsOutcome(fs, p).result],
     readFile |-> [p \in Paths |-> readFileOutcome(fs, p).result],
     glob |-> globOutcome(fs, <<"*">>, NoFilter).result,
     grep |-> grepOutcome(fs, SearchString(<<>>), NoFilter, Unspecified, Unspecified).result,
     getDirectoryTree |-> getDirectoryTreeOutcome(fs, <<"/">>, "omitted", NoFilter).result]

C12_InstancesIsolated ==
    /\ op.name \in {"writeFile", "appendFile", "copy", "rename"} =>
           \A b \in 1..providers :
               b # self => Observable(storeOf(b)) = Observable(before)
    /\ op.name = "new" => storeOf(self) = SeedFileSystem

(***************************************************************************)
(* Observations on the last getDirectoryTree call.                         *)
(***************************************************************************)
\* the paths yielded, as a set
Yielded ==
    { result.value[i] : i \in 1..Len(result.value) }

\* no path is yielded twice
YieldedOnce ==
    \A i, j \in 1..Len(result.value) : result.value[i] = result.value[j] => i = j

KeysBefore ==
    { before[i].key : i \in 1..Len(before) }

\* the directory argument with every leading and trailing "/" removed: what
\* lies between its first and its last character other than "/"
CoreOf(path) ==
    LET others == { i \in 1..Len(path) : path[i] # "/" }
    IN  IF others = {}
        THEN <<>>
        ELSE SubSeq(path,
                    CHOOSE i \in others : \A j \in others : i <= j,
                    CHOOSE i \in others : \A j \in others : i >= j)

(***************************************************************************)
(* C13.  Recursive traversal: for a non-root directory d,                  *)
(* getDirectoryTree(d, {recursive: true}), and the same call with          *)
(* recursive omitted, yields exactly the entries whose path starts with    *)
(* normalize(d) + "/", each once (so /srcfoo/x is not under /src and an    *)
(* entry whose key is d itself is not yielded); for d = "/" it yields      *)
(* every entry; a directory without matching entries yields an empty       *)
(* sequence and no error.                                                  *)
(***************************************************************************)
C13_RecursiveTraversal ==
    (/\ op.name = "getDirectoryTree"
     /\ op.recursive \in {"true", "omitted"}
     /\ ~Given(op.ig)) =>
        /\ result.kind = "resolved"
        /\ YieldedOnce
        /\ <<"/">> \o CoreOf(op.path) # <<"/">> =>
               Yielded = { k \in KeysBefore :
                              StartsWith(k, <<"/">> \o CoreOf(op.path) \o <<"/">>) }
        /\ op.path = <<"/">> => Yielded = KeysBefore

\* a walk of //src// with recursive omitted over a store that also holds
\* /srcfoo/x and an entry whose key is /src: only the nested entry is yielded
C13_Witness ==
    /\ op.name = "getDirectoryTree"
    /\ op.recursive = "omitted"
    /\ ~Given(op.ig)
    /\ op.path = <<"/">> \o SRC \o <<"/", "/">>
    /\ Has(before, SRCFOO_X)
    /\ Has(before, SRC)
    /\ Has(before, index_js_path)
    /\ Has(before, README_md_path)
    /\ result.value = <<index_js_path>>

(***************************************************************************)
(* C14.  Non-recursive traversal of a non-root directory d:                *)
(* getDirectoryTree(d, {recursive: false}) yields exactly the entries      *)
(* whose path is normalize(d) + "/" + name with name non-empty and without *)
(* "/" (immediate children only); it never yields an entry outside d nor   *)
(* one nested deeper.                                                      *)
(***************************************************************************)
C14_NonRecursiveTraversal ==
    (/\ op.name = "getDirectoryTree"
     /\ op.recursive = "false"
     /\ ~Given(op.ig)
     /\ <<"/">> \o CoreOf(op.path) # <<"/">>) =>
        LET dir == <<"/">> \o CoreOf(op.path) \o <<"/">>
        IN  /\ result.kind = "resolved"
            /\ Yielded = { k \in KeysBefore :
                              /\ StartsWith(k, dir)
                              /\ Len(k) > Len(dir)
                              /\ \A i \in (Len(dir) + 1)..Len(k) : k[i] # "/" }

SrcForms ==
    { SRC \o <<"/">>, SRC, Tail(SRC), <<"/">> \o SRC \o <<"/", "/">> }

C16_DirectoryNormalization ==
    op.name = "getDirectoryTree" =>
        /\ normalizedPath(op.path) = <<"/">> \o CoreOf(op.path)
        /\ normalizedPath(normalizedPath(op.path)) = normalizedPath(op.path)
        /\ op.path \in {<<"/">>, <<>>, <<"/", "/">>} => normalizedPath(op.path) = <<"/">>
        /\ op.path \in SrcForms =>
               \A d \in SrcForms :
                   LET other == getDirectoryTreeOutcome(before, d, op.recursive, op.ig)
                   IN  other.result = result /\ other.igCalls = igCalls

\* a walk of //src// that yields something, with the ignore predicate called
C16_Witness ==
    /\ op.name = "getDirectoryTree"
    /\ op.path = <<"/">> \o SRC \o <<"/", "/">>
    /\ op.recursive = "true"
    /\ Given(op.ig)
    /\ Len(result.value) = 1
    /\ Len(igCalls) = 2

(***************************************************************************)
(* C17.  Traversal ignore predicate: getDirectoryTree calls the predicate  *)
(* once per candidate entry with the entry's path relative to the          *)
(* normalized directory (directory prefix and separating "/" stripped; for *)
(* root, the leading "/" stripped); an entry is yielded iff it is a        *)
(* candidate and the predicate returns false for it; the yielded value is  *)
(* the absolute path.  The candidates are taken as the code selects them.  *)
(***************************************************************************)
C17_IgnorePredicate ==
    (op.name = "getDirectoryTree" /\ Given(op.ig)) =>
        LET dir == normalizedPath(op.path)
            prefix == IF dir = <<"/">> THEN <<"/">> ELSE dir \o <<"/">>
            candidates == matchingFiles(before, dir, RecursiveOf(op.recursive))
        IN  /\ Len(igCalls) = Len(candidates)
            /\ \A i \in 1..Len(candidates) : candidates[i] = prefix \o igCalls[i]
            /\ Yielded = { candidates[i] : i \in { j \in 1..Len(candidates) :
                                                      ~Apply(op.ig, igCalls[j]) } }
            /\ Yielded \subseteq KeysBefore

(***************************************************************************)
(* C18.  glob(pattern, {ignoreFilter}) returns exactly the paths of all    *)
(* entries for which ignoreFilter, applied to the absolute path, is absent *)
(* or returns false; the pattern never constrains the result, so calls     *)
(* with different patterns on the same store return the same list.         *)
(***************************************************************************)
C18_GlobIgnoresPattern ==
    op.name = "glob" =>
        /\ result.kind = "resolved"
        /\ YieldedOnce
        /\ Yielded = { k \in KeysBefore :
                          ~Given(op.ignoreFilter) \/ ~Apply(op.ignoreFilter, k) }
        /\ \A pattern \in Patterns :
               globOutcome(before, pattern, op.ignoreFilter).result = result

\* glob(".jsx") without a filter has returned paths that do not contain ".jsx"
C18_Witness ==
    /\ op.name = "glob"
    /\ op.pattern = DOT_JSX
    /\ ~Given(op.ignoreFilter)
    /\ README_md_path \in Yielded
    /\ Button_jsx_path \in Yielded
    /\ Len(result.value) = 4

(***************************************************************************)
(* Observations on the last grep call.                                     *)
(***************************************************************************)
\* the lines of the entry at path p when the call started
LinesOf(p) ==
    SplitLines(ContentOf(before, p))

\* path p is not excluded by the call's ignoreFilter
Searched(p) ==
    ~Given(op.ignoreFilter) \/ ~Apply(op.ignoreFilter, p)

\* position of the entry at p in the store's iteration order
PositionOf(p) ==
    CHOOSE i \in 1..Len(before) : before[i].key = p

(***************************************************************************)
(* C19.  grep(s, {ignoreFilter}) returns exactly one record for every pair *)
(* (entry, line) such that the entry is not excluded by ignoreFilter and   *)
(* the line (content split on the newline character) contains s as a       *)
(* case-sensitive literal substring, also when s occurs several times in   *)
(* the line; the record carries the entry path, the 1-based line number,   *)
(* the full line and s; records are grouped by entry in store iteration    *)
(* order and ascend by line number within an entry; nothing matching gives *)
(* an empty list, not an error.  Of an array argument the first element is *)
(* s.                                                                      *)
(***************************************************************************)
C19_GrepRecords ==
    (op.name = "grep" /\ op.searchString.items # <<>>) =>
        LET s == op.searchString.items[1]
            records == result.value
        IN  /\ result.kind = "resolved"
            /\ \A k \in 1..Len(records) :
                   /\ Has(before, records[k].file)
                   /\ Searched(records[k].file)
                   /\ records[k].line \in 1..Len(LinesOf(records[k].file))
                   /\ records[k].match = LinesOf(records[k].file)[records[k].line]
                   /\ Includes(records[k].match, s)
                   /\ records[k].matchedString = Defined(s)
            /\ \A p \in KeysBefore :
                   Searched(p) =>
                       \A n \in 1..Len(LinesOf(p)) :
                           Includes(LinesOf(p)[n], s) =>
                               Cardinality({ k \in 1..Len(records) :
                                   records[k].file = p /\ records[k].line = n }) = 1
            /\ \A k \in 1..(Len(records) - 1) :
                   \/ PositionOf(records[k].file) < PositionOf(records[k + 1].file)
                   \/ /\ records[k].file = records[k + 1].file
                      /\ records[k].line < records[k + 1].line

\* grep("ab") has returned one record for the line "abab" of /f, which holds
\* "ab" twice, after a record of /g, which comes first in the store
C19_Witness ==
    /\ op.name = "grep"
    /\ op.searchString = SearchString(<<"a", "b">>)
    /\ ~Given(op.ignoreFilter)
    /\ before[1].key = <<"/", "g">>
    /\ before[1].content = <<"a", "b", "\n", "\n", "b", "a", "\n">>
    /\ before[2].key = <<"/", "f">>
    /\ before[2].content = <<"a", "\n", "a", "b", "a", "b", "\n", "b">>
    /\ Len(result.value) >= 2
    /\ result.value[1].file = <<"/", "g">>
    /\ result.value[1].line = 1
    /\ result.value[2].file = <<"/", "f">>
    /\ result.value[2].line = 2
    /\ result.value[2].match = <<"a", "b", "a", "b">>
    /\ Cardinality({ k \in 1..Len(result.value) : result.value[k].file = <<"/", "f">> }) = 1

(***************************************************************************)
(* C20.  grep context window: for a match at 0-based line index i of an    *)
(* entry with lines 0..last, when before > 0 or after > 0 the record's     *)
(* content field is the newline-joined lines from max(0, i - before) to    *)
(* min(last, i + after) inclusive (clamped at both ends, always containing *)
(* the matching line); when both are 0 or unspecified the content field is *)
(* null.                                                                   *)
(***************************************************************************)
C20_GrepContext ==
    op.name = "grep" =>
        \A k \in 1..Len(result.value) :
            LET record == result.value[k]
                lines == LinesOf(record.file)
                i == record.line - 1
                last == Len(lines) - 1
                linesBefore == IF op.linesBefore.given THEN op.linesBefore.lines ELSE 0
                linesAfter == IF op.linesAfter.given THEN op.linesAfter.lines ELSE 0
                from == IF i - linesBefore < 0 THEN 0 ELSE i - linesBefore
                to == IF i + linesAfter > last THEN last ELSE i + linesAfter
            IN  IF linesBefore > 0 \/ linesAfter > 0
                THEN /\ ~record.content.isNull
                     /\ from <= i /\ i <= to
                     /\ record.content.text =
                            JoinLines([n \in 1..(to - from + 1) |-> lines[from + n]])
                ELSE record.content = NullContent

\* a match on the middle line of three with before = after = 2: the window
\* is cut at both ends and holds the whole file
C20_Witness ==
    /\ op.name = "grep"
    /\ op.linesBefore = ContextLines(2)
    /\ op.linesAfter = ContextLines(2)
    /\ \E k \in 1..Len(result.value) :
           /\ result.value[k].line = 2
           /\ Len(LinesOf(result.value[k].file)) = 3
           /\ result.value[k].content = TextContent(ContentOf(before, result.value[k].file))

(***************************************************************************)
(* C21.  createDirectory(path, options) resolves to true for every         *)
(* argument and is a no-op: the store is unchanged, exists(path) keeps its *)
(* previous value, and no traversal or glob result changes (an empty       *)
(* directory never becomes observable).                                    *)
(***************************************************************************)
C21_CreateDirectoryNoOp ==
    op.name = "createDirectory" =>
        /\ result = Resolved(TRUE)
        /\ mockFileSystem = before
        /\ existsOutcome(mockFileSystem, op.path).result = existsOutcome(before, op.path).result
        /\ globOutcome(mockFileSystem, <<"*">>, NoFilter).result
               = globOutcome(before, <<"*">>, NoFilter).result
        /\ \A d \in {op.path, <<"/">>}, r \in RecursiveOptions :
               getDirectoryTreeOutcome(mockFileSystem, d, r, NoFilter).result
                   = getDirectoryTreeOutcome(before, d, r, NoFilter).result

\* createDirectory on a path without an entry, in a store that an earlier
\* call has changed: the path still has no entry
C21_Witness ==
    /\ op.name = "createDirectory"
    /\ ~Has(before, op.path)
    /\ before # SeedFileSystem
    /\ result = Resolved(TRUE)
    /\ ~Has(mockFileSystem, op.path)

(***************************************************************************)
(* C22.  The unsupported capabilities never signal an error and never      *)
(* touch the store: watch(dir, options) always resolves to null, and       *)
(* executeCommand(cmd, options) always resolves to a structured failure    *)
(* result with ok = false, exitCode = 1, a non-empty stderr and an error   *)
(* field, for every argument and in every state.                           *)
(***************************************************************************)
C22_UnsupportedNeverThrow ==
    /\ op.name = "watch" =>
           /\ result = Resolved("null")
           /\ mockFileSystem = before
    /\ op.name = "executeCommand" =>
           /\ result.kind = "resolved"
           /\ result.value.ok = FALSE
           /\ result.value.exitCode = 1
           /\ result.value.stderr # <<>>
           /\ "error" \in DOMAIN result.value
           /\ mockFileSystem = before

\* executeCommand with an array argument in a store that an earlier call
\* has changed
C22_Witness ==
    /\ op.name = "executeCommand"
    /\ op.command.isArray
    /\ before # SeedFileSystem
    /\ result.kind = "resolved"
    /\ result.value.ok = FALSE

(***************************************************************************)
(* C23.  stat(p) on a path that has an entry returns path = p, isFile =    *)
(* true, isDirectory = false, isSymbolicLink = false and size equal to the *)
(* length of the content currently stored at p, so that after any sequence *)
(* of writeFile/appendFile/copy/rename the reported size equals the length *)
(* of what readFile(p) yields; stat does not change the store.             *)
(***************************************************************************)
C23_StatReportsFile ==
    (op.name = "stat" /\ Has(before, op.path)) =>
        /\ result.kind = "resolved"
        /\ result.value.path = op.path
        /\ result.value.isFile = TRUE
        /\ result.value.isDirectory = FALSE
        /\ result.value.isSymbolicLink = FALSE
        /\ result.value.size = Len(ContentOf(before, op.path))
        /\ result.value.size = Len(readFileOutcome(before, op.path).result.value)
        /\ mockFileSystem = before

\* stat of an entry that an earlier call created outside the seed, with
\* content of one character
C23_Witness ==
    /\ op.name = "stat"
    /\ Has(before, op.path)
    /\ ~Has(SeedFileSystem, op.path)
    /\ ContentOf(before, op.path) # <<>>
    /\ result.kind = "resolved"
    /\ result.value.size = Len(ContentOf(before, op.path))
    /\ result.value.size # Len(op.path)

(***************************************************************************)
(* C24.  Presence is observed consistently: in every reachable state and   *)
(* for every path p, exists(p) is true iff the store holds an entry for p, *)
(* iff readFile(p) yields content rather than a not-found signal, iff      *)
(* stat(p) succeeds, iff p is in the list returned by glob with no ignore  *)
(* filter, including for entries whose content is the empty string; exists *)
(* never fails and never changes the store.                                *)
(***************************************************************************)
\* p is in the list glob returns on store fs without an ignore filter
Globbed(fs, p) ==
    LET files == globOutcome(fs, <<"*">>, NoFilter).result.value
    IN  \E i \in 1..Len(files) : files[i] = p

AbsolutePath(path) ==
    /\ path # <<>>
    /\ Head(path) = "/"
    /\ Len(path) > 1 => path[Len(path)] # "/"

C26_KeysAbsolute ==
    LET globbed == globOutcome(mockFileSystem, <<"*">>, NoFilter).result.value
        yielded == getDirectoryTreeOutcome(mockFileSystem, <<"/">>, "omitted", NoFilter).result.value
        records == grepOutcome(mockFileSystem, SearchString(<<>>), NoFilter,
                               Unspecified, Unspecified).result.value
    IN  /\ \A i \in 1..Len(mockFileSystem) : AbsolutePath(mockFileSystem[i].key)
        /\ \A i \in 1..Len(globbed) : AbsolutePath(globbed[i])
        /\ \A i \in 1..Len(yielded) : AbsolutePath(yielded[i])
        /\ \A i \in 1..Len(records) : AbsolutePath(records[i].file)

(***************************************************************************)
(* C27.  Traversal snapshot: the sequence produced by one getDirectoryTree *)
(* invocation is fixed by the store contents at the moment of the call;    *)
(* mutations interleaved with its consumption (between the call and        *)
(* pulling the first element, or between two elements) neither add,        *)
(* remove, reorder nor duplicate yielded paths, every matching path        *)
(* present at call start is yielded exactly once, and a second invocation  *)
(* re-scans the store and is independent of the first.                     *)
(***************************************************************************)
\* what generator g yields when it is consumed at once, at the call
SnapshotAtCall(g) ==
    getDirectoryTreeOutcome(g.atCall, g.path, g.recursive, g.ig).result.value

C27_TraversalSnapshot ==
    \A i \in 1..Len(generators) :
        LET g == generators[i]
        IN  /\ Len(g.yielded) <= Len(SnapshotAtCall(g))
            /\ g.yielded = SubSeq(SnapshotAtCall(g), 1, Len(g.yielded))
            /\ g.done => g.yielded = SnapshotAtCall(g)

(***************************************************************************)
(* C28.  Each of writeFile, appendFile, copy and rename performs its       *)
(* existence checks and its mutation as one atomic step, so under any      *)
(* interleaving of calls from several callers the resulting store equals   *)
(* that of some sequential order of the calls; in particular, when two     *)
(* renames (or two non-overwrite copies) from different existing sources   *)
(* target the same absent destination, exactly one succeeds, the other     *)
(* signals a destination conflict, and the losing call's source entry is   *)
(* still present with its content.                                         *)
(***************************************************************************)
\* the call as one atomic step on store fs
AtomicOutcome(fs, call) ==
    IF call.name = "writeFile" THEN writeFileOutcome(fs, call.path, call.content)
    ELSE IF call.name = "appendFile" THEN appendFileOutcome(fs, call.path, call.content)
    ELSE IF call.name = "copy"
    THEN copyOutcome(fs, call.path, call.destination, call.overwrite)
    ELSE renameOutcome(fs, call.path, call.destination)

\* the orders in which n callers can be served one after the other
Orders(n) ==
    { order \in [1..n -> 1..n] : \A i, j \in 1..n : order[i] = order[j] => i = j }

\* the store after the first k calls of the order, each as one atomic step,
\* from the seed store
RECURSIVE StoreAfter(_, _)
StoreAfter(order, k) ==
    IF k = 0
    THEN SeedFileSystem
    ELSE AtomicOutcome(StoreAfter(order, k - 1), frames[order[k]].call).store

AllSettled ==
    \A i \in 1..Len(frames) : frames[i].pc = "settled"

\* callers i and j both rename, or both copy without overwrite, different
\* seed entries to one destination that the seed does not have
Contend(i, j) ==
    /\ frames[i].call.name = frames[j].call.name
    /\ frames[i].call.name \in {"rename", "copy"}
    /\ ~frames[i].call.overwrite /\ ~frames[j].call.overwrite
    /\ frames[i].call.path # frames[j].call.path
    /\ Has(SeedFileSystem, frames[i].call.path)
    /\ Has(SeedFileSystem, frames[j].call.path)
    /\ frames[i].call.destination = frames[j].call.destination
    /\ ~Has(SeedFileSystem, frames[i].call.destination)

\* caller w has won against caller l
Won(w, l) ==
    /\ frames[w].result = Resolved(TRUE)
    /\ frames[l].result.kind = "rejected"
    /\ frames[l].result.prefix = "Destination file already exists: "
    /\ frames[l].result.path = frames[l].call.destination
    /\ Has(mockFileSystem, frames[l].call.path)
    /\ ContentOf(mockFileSystem, frames[l].call.path)
           = ContentOf(SeedFileSystem, frames[l].call.path)
    /\ ContentOf(mockFileSystem, frames[w].call.destination)
           = ContentOf(SeedFileSystem, frames[w].call.path)

C28_CallsAtomic ==
    AllSettled =>
        /\ \E order \in Orders(Len(frames)) :
               /\ mockFileSystem = StoreAfter(order, Len(frames))
               /\ \A k \in 1..Len(frames) :
                      frames[order[k]].result
                          = AtomicOutcome(StoreAfter(order, k - 1), frames[order[k]].call).result
        /\ (Len(frames) = 2 /\ Contend(1, 2)) => (Won(1, 2) \/ Won(2, 1))

\* two renames of different seed entries to "/a" have both settled: the
\* second caller's rename was refused and its source is still there
C28_Witness ==
    /\ Len(frames) = 2
    /\ AllSettled
    /\ frames[1].call.name = "rename"
    /\ Contend(1, 2)
    /\ Won(1, 2)
    /\ ~Has(mockFileSystem, frames[1].call.path)

(***************************************************************************)
(* C29.  Enumeration order: getDirectoryTree("/"), glob and the entry      *)
(* grouping of grep all enumerate entries in the same order, the order in  *)
(* which the paths were first created (seed entries first, in their        *)
(* declared order); repeated calls with no intervening mutation return the *)
(* same order; overwriting an existing path with writeFile, appendFile or  *)
(* copy-with-overwrite does not change its position; an entry created by   *)
(* rename takes the last position.                                         *)
(***************************************************************************)
\* the files of grep's records for the empty search text (every line of
\* every entry matches), each file once, in the order of first appearance
GrepGrouping(fs) ==
    LET records == grepOutcome(fs, SearchString(<<>>), NoFilter,
                               Unspecified, Unspecified).result.value
        firsts == SelectSeq([k \in 1..Len(records) |-> k],
                            LAMBDA k : \A l \in 1..(k - 1) :
                                           records[l].file # records[k].file)
    IN  [n \in 1..Len(firsts) |-> records[firsts[n]].file]

\* the keys of fs without path p, in order
KeysWithout(fs, p) ==
    SelectSeq(Keys(fs), LAMBDA k : k # p)

\* the order of creation after the last call, given that before it: a path
\* created by the call comes last, every other path keeps its place
CreationOrder ==
    IF result.kind = "rejected" \/ op.name \notin {"writeFile", "appendFile", "copy", "rename"}
    THEN Keys(before)
    ELSE IF op.name = "rename"
    THEN Append(KeysWithout(before, op.path), op.destination)
    ELSE LET created == IF op.name = "copy" THEN op.destination ELSE op.path
         IN  IF Has(before, created)
             THEN Keys(before)
             ELSE Append(Keys(before), created)

C29_EnumerationOrder ==
    /\ globOutcome(mockFileSystem, <<"*">>, NoFilter).result.value = CreationOrder
    /\ getDirectoryTreeOutcome(mockFileSystem, <<"/">>, "omitted", NoFilter).result.value
           = CreationOrder
    /\ GrepGrouping(mockFileSystem) = CreationOrder
    /\ op.name = "none" => CreationOrder = Keys(SeedFileSystem)

(***************************************************************************)
(* C30.  Plugin installation: install(app, config) registers nothing when  *)
(* config.filesystem is absent; otherwise it registers nothing until the   *)
(* FileSystemService becomes available (the waitForItemByType callback     *)
(* fires), and when it does, it registers exactly one newly constructed    *)
(* BrowserFileSystemProvider under each provider name whose configured     *)
(* type is "browser" and none for names of any other type.                 *)
(***************************************************************************)
\* the number of registrations made under name
RegisteredUnder(name) ==
    Cardinality({ k \in 1..Len(plugin.registered) : plugin.registered[k].name = name })

\* name is configured with the type "browser"
ConfiguredBrowser(name) ==
    \E k \in 1..Len(plugin.config.providers) :
        /\ plugin.config.providers[k].name = name
        /\ plugin.config.providers[k].type = "browser"

C30_PluginInstall ==
    /\ ~plugin.config.hasFilesystem => (plugin.registered = <<>> /\ ~plugin.waiting)
    /\ ~plugin.fired => plugin.registered = <<>>
    /\ plugin.fired => plugin.available
    /\ plugin.fired =>
           /\ \A name \in ProviderNames :
                  RegisteredUnder(name) = IF ConfiguredBrowser(name) THEN 1 ELSE 0
           /\ \A k, l \in 1..Len(plugin.registered) :
                  plugin.registered[k].provider = plugin.registered[l].provider => k = l
           /\ \A k \in 1..Len(plugin.registered) :
                  /\ plugin.registered[k].provider > providers - Len(plugin.registered)
                  /\ plugin.registered[k].provider <= providers

\* the callback has fired for a configuration with one provider of another
\* type followed by one "browser" provider
C30_Witness ==
    /\ plugin.fired
    /\ Len(plugin.config.providers) = 2
    /\ plugin.config.providers[1].type = "local"
    /\ plugin.config.providers[2].type = "browser"
    /\ Len(plugin.registered) = 1
    /\ plugin.registered[1].name = plugin.config.providers[2].name

====
